---- MODULE Spec2Model ----
(***************************************************************************)
(* Model of the picture-book backend: the page-analysis handler            *)
(* (api/analyze.py) and the speech-synthesis handler (api/synthesize.py).  *)
(*                                                                         *)
(* Text is modelled as a sequence of runs [k, n, v]: k is the kind of      *)
(* character ("{", "}", "[", "]", ",", ":", a string literal "str", the    *)
(* literal "null", a digit "num", white space " ", any other prose "x"),   *)
(* n the number of characters of the run and v the payload of a string     *)
(* literal or digit.  Structural characters, literals and digits are runs  *)
(* of one character; prose and white space may be long runs.               *)
(***************************************************************************)
EXTENDS Integers, Sequences, FiniteSets, TLC

VARIABLES
    reply,        \* analyze_page: the model's reply (content) and how it was built
    page_num,     \* analyze_page: the page index handed to it
    extracted,    \* analyze_page: what the extraction step returned
    character,    \* determine_voice: its first argument
    emotion,      \* determine_voice: its second argument
    voice,        \* determine_voice: its outcome
    pc,           \* handler: where the invocation stands
    req,          \* handler: the request being served
    i,            \* handler: index of the image / page of the loop
    j,            \* synthesize handler: index of the dialogue of the inner loop
    pages,        \* analyze handler: the records collected so far
    audio_urls,   \* synthesize handler: the manifests collected so far
    page_audios,  \* synthesize handler: the manifest of the page in hand
    book_id,      \* synthesize handler: the book id in use
    resp,         \* handler: the response returned
    calls,        \* the calls this invocation made to the outside services
    storage,      \* the COS bucket: key -> object
    runs,         \* invocations completed against this bucket
    finished,     \* the successful synthesis requests completed, with their manifests
    keys_at_start \* the bucket's keys when the invocation began

extractVars == <<reply, page_num, extracted>>
voiceVars == <<character, emotion, voice>>
invocationVars == <<pc, req, i, j, pages, audio_urls, page_audios, book_id, resp, calls>>
bucketVars == <<storage, runs, finished, keys_at_start>>
handlerVars == <<invocationVars, bucketVars>>
vars == <<extractVars, voiceVars, handlerVars>>

-----------------------------------------------------------------------------
(* Bounds of the model *)

MaxRaw == 4        \* longest free-form reply text, in runs
MaxProse == 1      \* longest prose before / after an embedded object, in runs
MaxPages == 2      \* most images / pages in one request
MaxWords == 2      \* most words in a character label
MaxRuns == 2       \* most invocations against one bucket

-----------------------------------------------------------------------------
(* Text *)

Tok(k) == [k |-> k, n |-> 1, v |-> ""]
Str(s) == [k |-> "str", n |-> 1, v |-> s]
Num(d) == [k |-> "num", n |-> 1, v |-> d]
Run(k, m) == [k |-> k, n |-> m, v |-> ""]

DigitOf(m) == <<"0", "1", "2", "3", "4", "5", "6", "7", "8", "9">>[m + 1]

\* the number of characters in runs lo..hi of t
RECURSIVE RunChars(_, _, _)
RunChars(t, lo, hi) ==
    IF lo > hi THEN 0
    ELSE IF lo = hi THEN t[lo].n
    ELSE LET mid == (lo + hi) \div 2 IN RunChars(t, lo, mid) + RunChars(t, mid + 1, hi)

\* Python len(t)
TextLen(t) == RunChars(t, 1, Len(t))

\* the number of leading runs of t that lie wholly within its first m characters
WholeRuns(t, m) ==
    CHOOSE c \in 0..Len(t) :
        /\ RunChars(t, 1, c) <= m
        /\ c < Len(t) => RunChars(t, 1, c + 1) > m

\* Python t[:m]
Take(t, m) ==
    IF t = <<>> \/ m <= 0 THEN <<>>
    ELSE LET c == WholeRuns(t, m)
             left == m - RunChars(t, 1, c)
         IN  IF c < Len(t) /\ left > 0
             THEN SubSeq(t, 1, c) \o <<[t[c + 1] EXCEPT !.n = left]>>
             ELSE SubSeq(t, 1, c)

\* Python t[m:]
Drop(t, m) ==
    IF t = <<>> \/ m <= 0 THEN t
    ELSE LET c == WholeRuns(t, m)
             left == m - RunChars(t, 1, c)
         IN  IF c < Len(t) /\ left > 0
             THEN <<[t[c + 1] EXCEPT !.n = t[c + 1].n - left]>> \o SubSeq(t, c + 2, Len(t))
             ELSE SubSeq(t, c + 1, Len(t))

\* Python t[a:b] for 0 <= a
Slice(t, a, b) == Take(Drop(t, a), b - a)

\* Python t.find(k): index of the first character of kind k, or -1
find(t, k) ==
    IF \E c \in 1..Len(t) : t[c].k = k
    THEN LET first == CHOOSE c \in 1..Len(t) :
                          t[c].k = k /\ \A b \in 1..(c - 1) : t[b].k # k
         IN  RunChars(t, 1, first - 1)
    ELSE -1

\* Python t.rfind(k): index of the last character of kind k, or -1
rfind(t, k) ==
    IF \E c \in 1..Len(t) : t[c].k = k
    THEN LET last == CHOOSE c \in 1..Len(t) :
                         t[c].k = k /\ \A b \in (c + 1)..Len(t) : t[b].k # k
         IN  RunChars(t, 1, last) - 1
    ELSE -1

-----------------------------------------------------------------------------
(* JSON values, tagged by type *)

JStr(s) == [t |-> "str", v |-> s]
JText(txt) == [t |-> "text", v |-> txt]     \* a str cut out of a reply text
JNum(ds) == [t |-> "num", v |-> ds]
JNull == [t |-> "null", v |-> ""]
JArr(s) == [t |-> "arr", v |-> s]
JObj(f) == [t |-> "obj", v |-> f]
EmptyDict == [key \in {} |-> JNull]

Ok(val, rest) == [ok |-> TRUE, val |-> val, rest |-> rest]
Fail == [ok |-> FALSE, val |-> JNull, rest |-> <<>>]

RECURSIVE SkipWs(_)
SkipWs(t) == IF t # <<>> /\ Head(t).k = " " THEN SkipWs(Tail(t)) ELSE t

RECURSIVE Digits(_)
Digits(t) == IF t # <<>> /\ Head(t).k = "num" THEN <<Head(t).v>> \o Digits(Tail(t)) ELSE <<>>

\* json.loads's grammar: value, object members, array elements
RECURSIVE ParseValue(_)
RECURSIVE ParseMembers(_, _)
RECURSIVE ParseElements(_, _)

ParseValue(t0) ==
    LET t == SkipWs(t0) IN
    IF t = <<>> THEN Fail
    ELSE CASE Head(t).k = "str" -> Ok(JStr(Head(t).v), Tail(t))
           [] Head(t).k = "null" -> Ok(JNull, Tail(t))
           [] Head(t).k = "num" ->
                LET ds == Digits(t) IN
                IF Len(ds) > 1 /\ ds[1] = "0" THEN Fail
                ELSE Ok(JNum(ds), SubSeq(t, Len(ds) + 1, Len(t)))
           [] Head(t).k = "{" ->
                LET u == SkipWs(Tail(t)) IN
                IF u # <<>> /\ Head(u).k = "}" THEN Ok(JObj(EmptyDict), Tail(u))
                ELSE ParseMembers(u, EmptyDict)
           [] Head(t).k = "[" ->
                LET u == SkipWs(Tail(t)) IN
                IF u # <<>> /\ Head(u).k = "]" THEN Ok(JArr(<<>>), Tail(u))
                ELSE ParseElements(u, <<>>)
           [] OTHER -> Fail

ParseMembers(t0, acc) ==
    LET t == SkipWs(t0) IN
    IF t = <<>> \/ Head(t).k # "str" THEN Fail
    ELSE LET u == SkipWs(Tail(t)) IN
         IF u = <<>> \/ Head(u).k # ":" THEN Fail
         ELSE LET r == ParseValue(Tail(u)) IN
              IF ~r.ok THEN Fail
              ELSE LET w == SkipWs(r.rest)
                       acc2 == (Head(t).v :> r.val) @@ acc
                   IN  IF w = <<>> THEN Fail
                       ELSE IF Head(w).k = "," THEN ParseMembers(Tail(w), acc2)
                       ELSE IF Head(w).k = "}" THEN Ok(JObj(acc2), Tail(w))
                       ELSE Fail

ParseElements(t0, acc) ==
    LET r == ParseValue(t0) IN
    IF ~r.ok THEN Fail
    ELSE LET w == SkipWs(r.rest)
             acc2 == Append(acc, r.val)
         IN  IF w = <<>> THEN Fail
             ELSE IF Head(w).k = "," THEN ParseElements(Tail(w), acc2)
             ELSE IF Head(w).k = "]" THEN Ok(JArr(acc2), Tail(w))
             ELSE Fail

\* json.loads(s): the whole of s is one value, else JSONDecodeError
json_loads(s) ==
    LET r == ParseValue(s) IN
    IF r.ok /\ SkipWs(r.rest) = <<>> THEN [ok |-> TRUE, val |-> r.val]
    ELSE [ok |-> FALSE, val |-> JNull]

-----------------------------------------------------------------------------
(* analyze_page: the extraction of the page record from the reply text *)

NarratorCap == 500

\* the except branch: the fallback structure
fallback_structure(content) ==
    JObj([narrator |-> JText(Take(content, NarratorCap)),
          dialogues |-> JArr(<<>>),
          scene_description |-> JStr("Analysis failed to parse")])

\* parse_content cutting at the first "}" instead of the last
parse_content_first_close(content) ==
    LET start_idx == find(content, "{")
        end_idx == find(content, "}") + 1
    IN  IF start_idx >= 0 /\ end_idx > start_idx
        THEN LET parsed == json_loads(Slice(content, start_idx, end_idx)) IN
             IF parsed.ok THEN [raised |-> FALSE, path |-> "parsed", value |-> parsed.val]
             ELSE [raised |-> FALSE, path |-> "fallback", value |-> fallback_structure(content)]
        ELSE [raised |-> FALSE, path |-> "fallback", value |-> fallback_structure(content)]

\* the try block: first "{" to last "}", parsed; any failure gives the fallback
parse_content(content) ==
    LET start_idx == find(content, "{")
        end_idx == rfind(content, "}") + 1
    IN  IF start_idx >= 0 /\ end_idx > start_idx
        THEN LET parsed == json_loads(Slice(content, start_idx, end_idx)) IN
             IF parsed.ok THEN [raised |-> FALSE, path |-> "parsed", value |-> parsed.val]
             ELSE [raised |-> FALSE, path |-> "fallback", value |-> fallback_structure(content)]
        ELSE [raised |-> FALSE, path |-> "fallback", value |-> fallback_structure(content)]

-----------------------------------------------------------------------------
(* The replies the extraction is tried on *)

\* all texts of at most m runs over the alphabet A
RECURSIVE TextsUpTo(_, _)
TextsUpTo(A, m) ==
    IF m = 0 THEN {<<>>}
    ELSE LET S == TextsUpTo(A, m - 1) IN S \cup {Append(t, a) : t \in S, a \in A}

RawAlphabet ==
    {Tok("{"), Tok("}"), Tok(":"), Str("narrator"), Num("1"), Run("x", 1), Run("x", 600)}

ProseAlphabet == {Run("x", 3), Run(" ", 1), Tok("{"), Tok("}")}

Line(c, t, e) == JObj([character |-> c, text |-> JStr(t), emotion |-> JStr(e)])

Page(n, ds, s) ==
    JObj([narrator |-> JStr(n), dialogues |-> JArr(ds), scene_description |-> JStr(s)])

LineMom == Line(JStr("Mom"), "Hi there", "happy")
LineBoy == Line(JStr("Boy"), "Hello", "excited")
LineAnon == Line(JNull, "Psst", "")

PageObjects ==
    { Page("A cat sat.", <<>>, "a cat on a mat"),
      Page("Hello", <<LineMom, LineBoy>>, "a kitchen"),
      Page("Hello", <<LineBoy, LineMom>>, "a kitchen"),
      Page("", <<LineAnon, LineMom, LineAnon>>, "") }

\* the separators of a JSON text, with the white space a serializer puts after them
Comma == <<Tok(","), Run(" ", 1)>>
Colon == <<Tok(":"), Run(" ", 1)>>

RECURSIVE Joined(_)
Joined(parts) ==
    IF parts = <<>> THEN <<>>
    ELSE IF Len(parts) = 1 THEN parts[1]
    ELSE parts[1] \o Comma \o Joined(Tail(parts))

EncodeAtom(val) == IF val.t = "null" THEN <<Tok("null")>> ELSE <<Str(val.v)>>

EncodeLine(d) ==
    <<Tok("{")>> \o <<Str("character")>> \o Colon \o EncodeAtom(d.v.character) \o Comma
    \o <<Str("text")>> \o Colon \o EncodeAtom(d.v.text) \o Comma
    \o <<Str("emotion")>> \o Colon \o EncodeAtom(d.v.emotion) \o <<Tok("}")>>

\* the JSON text of a page record, in the shape the prompt asks for
EncodePage(p) ==
    <<Tok("{")>> \o <<Str("narrator")>> \o Colon \o EncodeAtom(p.v.narrator) \o Comma
    \o <<Str("dialogues")>> \o Colon \o <<Tok("[")>>
    \o Joined([k \in 1..Len(p.v.dialogues.v) |-> EncodeLine(p.v.dialogues.v[k])])
    \o <<Tok("]")>> \o Comma
    \o <<Str("scene_description")>> \o Colon \o EncodeAtom(p.v.scene_description)
    \o <<Tok("}")>>

NoPage == Page("", <<>>, "")

FreeReplies ==
    {[embedded |-> FALSE, pre |-> <<>>, obj |-> NoPage, post |-> <<>>, content |-> t] :
        t \in TextsUpTo(RawAlphabet, MaxRaw)}

EmbeddedReplies ==
    {[embedded |-> TRUE, pre |-> a, obj |-> p, post |-> b,
      content |-> a \o EncodePage(p) \o b] :
        a \in TextsUpTo(ProseAlphabet, MaxProse),
        b \in TextsUpTo(ProseAlphabet, MaxProse),
        p \in PageObjects}

Replies == FreeReplies \cup EmbeddedReplies

NotExtracted == [raised |-> FALSE, path |-> "none", value |-> JNull]

-----------------------------------------------------------------------------
(* determine_voice *)

VOICE_MAP ==
    [narrator |-> "zh-CN-XiaoxiaoNeural", child |-> "zh-CN-XiaoyiNeural",
     male |-> "zh-CN-YunxiNeural", female |-> "zh-CN-XiaochenNeural"]

DEFAULT_VOICE == "zh-CN-XiaoxiaoNeural"

\* A str is a sequence of one-character strings; the two CJK characters are
\* written by their code points.  None is a value apart from every str.
None == <<"<None>">>
BA == "U+7238"
MA == "U+5988"

Uppers == <<"A","B","C","D","E","F","G","H","I","J","K","L","M",
            "N","O","P","Q","R","S","T","U","V","W","X","Y","Z">>
Lowers == <<"a","b","c","d","e","f","g","h","i","j","k","l","m",
            "n","o","p","q","r","s","t","u","v","w","x","y","z">>

LowerChar(c) ==
    IF \E k \in 1..26 : Uppers[k] = c
    THEN Lowers[CHOOSE k \in 1..26 : Uppers[k] = c]
    ELSE c

\* str.lower()
lower(s) == [k \in 1..Len(s) |-> LowerChar(s[k])]

\* Python `sub in s` for two strs
contains(s, sub) ==
    \E k \in 0..(Len(s) - Len(sub)) : SubSeq(s, k + 1, k + Len(sub)) = sub

Voiced(v) == [raised |-> FALSE, voice |-> v]
TypeError == [raised |-> TRUE, voice |-> ""]

determine_voice(chr, emo) ==
    LET character_lower == IF chr # None /\ chr # <<>> THEN lower(chr) ELSE <<>> IN
    IF \/ contains(character_lower, <<"c","h","i","l","d">>)
       \/ contains(character_lower, <<"k","i","d">>)
       \/ contains(character_lower, <<"b","o","y">>)
       \/ contains(character_lower, <<"g","i","r","l">>)
    THEN Voiced(VOICE_MAP["child"])
    ELSE IF \/ contains(character_lower, <<"f","a","t","h","e","r">>)
            \/ contains(character_lower, <<"d","a","d">>)
    THEN Voiced(VOICE_MAP["male"])
    \* `'...' in character` with character = None: argument of type NoneType
    ELSE IF chr = None THEN TypeError
    ELSE IF contains(chr, <<BA, BA>>)
    THEN Voiced(VOICE_MAP["male"])
    ELSE IF \/ contains(character_lower, <<"m","o","t","h","e","r">>)
            \/ contains(character_lower, <<"m","o","m">>)
            \/ contains(chr, <<MA, MA>>)
    THEN Voiced(VOICE_MAP["female"])
    ELSE Voiced(DEFAULT_VOICE)

Words ==
    { <<"G","i","r","l">>, <<"B","O","Y">>, <<"K","i","d">>, <<"c","h","i","l","d">>,
      <<"D","a","d">>, <<"F","A","T","H","E","R">>, <<"m","o","m">>,
      <<"M","o","t","h","e","r">>, <<BA>>, <<MA>>, <<"F","o","x">>, <<"k","i">> }

RECURSIVE Labels(_)
Labels(m) ==
    IF m = 0 THEN {<<>>}
    ELSE LET S == Labels(m - 1) IN S \cup {l \o w : l \in S, w \in Words}

Characters == Labels(MaxWords) \cup {None}
Emotions == {"", "happy"}
NotVoiced == [raised |-> FALSE, voice |-> "pending"]

-----------------------------------------------------------------------------
(* Requests, responses and the outside services *)

NoError == [type |-> "", msg |-> "", code |-> 0]
Error(type, msg, code) == [type |-> type, msg |-> msg, code |-> code]

NoResp ==
    [statusCode |-> 0, keys |-> {}, success |-> FALSE, error |-> NoError,
     pages |-> <<>>, page_count |-> 0, book_id |-> <<>>, audio_urls |-> <<>>]

\* {"statusCode": code, "body": {"error": msg}}
Rejected(code, msg) ==
    [NoResp EXCEPT !.statusCode = code, !.keys = {"error"}, !.error = Error("", msg, 0)]

\* an except branch that hands back the manifests collected so far
Failed_with_partial(e) ==
    [NoResp EXCEPT !.statusCode = 500, !.keys = {"error", "success", "audio_urls"},
                   !.error = e, !.audio_urls = audio_urls]

\* the handler's except branch: {"error": str(e), "success": False}
Failed(e) ==
    [NoResp EXCEPT !.statusCode = 500, !.keys = {"error", "success"}, !.error = e]

\* an image as the caller sends it: a data URL, or the bare base64 payload
Image(prefix, payload) == [prefix |-> prefix, payload |-> payload]
JpegPrefix == "data:image/jpeg;base64"
Images == {Image(JpegPrefix, "AAAA"), Image("data:image/png;base64", "BBBB"), Image("", "CCCC")}

\* image_data.startswith('data:')
startswith_data(img) == img.prefix # ""

\* encode_image_to_base64 of bytes
encode_image_to_base64(data) == Image(JpegPrefix, data)

\* a part of a multipart body: an image file, a part the filter skips, a file
\* whose data does not decode
Parts == {[kind |-> "image", data |-> "AAAA"], [kind |-> "field", data |-> "title"],
          [kind |-> "undecodable", data |-> "A"]}

RECURSIVE multipart_images(_)
multipart_images(parts) ==
    IF parts = <<>> THEN <<>>
    ELSE IF Head(parts).kind = "image"
    THEN <<encode_image_to_base64(Head(parts).data)>> \o multipart_images(Tail(parts))
    ELSE multipart_images(Tail(parts))

RECURSIVE SeqsUpTo(_, _)
SeqsUpTo(S, m) ==
    IF m = 0 THEN {<<>>}
    ELSE LET T == SeqsUpTo(S, m - 1) IN T \cup {Append(t, x) : t \in T, x \in S}

\* what the vision service may answer
Answer(kind, status, envelope, content) ==
    [kind |-> kind, status |-> status, envelope |-> envelope, content |-> content]

ReplyA == <<Run("x", 8)>> \o EncodePage(Page("A cat sat.", <<>>, "a cat on a mat")) \o <<Run("x", 6)>>
ReplyTalk == EncodePage(Page("Hello", <<LineMom, LineBoy>>, "a kitchen"))
ReplyProse == <<Run("x", 600)>>

Answers ==
    { Answer("unreachable", 0, FALSE, <<>>),
      Answer("http", 500, TRUE, <<Run("x", 20)>>),
      Answer("http", 200, FALSE, <<>>),
      Answer("http", 200, TRUE, ReplyA),
      Answer("http", 200, TRUE, ReplyTalk),
      Answer("http", 200, TRUE, ReplyProse) }

\* a call of client.post, synthesize_text or upload_to_cos, with how it ended:
\* the HTTP status of the vision service, 200 for a call that returned, 0 for
\* one that raised
Call(api, a, b, status) == [api |-> api, p |-> <<a, b>>, status |-> status]

\* analyze_page, given the service's answer to its request
analyze_page(answer, pn) ==
    IF answer.kind # "http"
    THEN [raised |-> TRUE, error |-> Error("ConnectError", "", 0), value |-> JNull]
    ELSE IF answer.status # 200
    THEN [raised |-> TRUE, error |-> Error("Exception", "MiniMax API error", answer.status),
          value |-> JNull]
    ELSE IF ~answer.envelope
    THEN [raised |-> TRUE, error |-> Error("KeyError", "choices", 0), value |-> JNull]
    ELSE LET r == parse_content(answer.content) IN
         [raised |-> r.raised, error |-> NoError, value |-> r.value]

-----------------------------------------------------------------------------
(* The analyze handler *)

AnalyzeRequest(method, ctype, has, images, parts) ==
    [endpoint |-> "analyze", method |-> method, ctype |-> ctype, has |-> has,
     images |-> images, parts |-> parts, pages |-> <<>>, book_id |-> <<>>]

AnalyzeRequests ==
    {AnalyzeRequest("GET", "application/json", FALSE, <<>>, <<>>),
     AnalyzeRequest("POST", "text/plain", FALSE, <<>>, <<>>),
     AnalyzeRequest("POST", "application/json", FALSE, <<>>, <<>>),
     AnalyzeRequest("POST", "multipart/form-data", FALSE, <<>>, <<>>)}
    \cup {AnalyzeRequest("POST", "application/json", TRUE, s, <<>>) :
            s \in SeqsUpTo(Images, MaxPages)}
    \cup {AnalyzeRequest("POST", "multipart/form-data; boundary=b", TRUE, <<>>, s) :
            s \in SeqsUpTo(Parts, MaxPages)}

\* `if not images` that never rejects
no_images_never(imgs) == FALSE

\* `if not images`
no_images(imgs) == imgs = <<>>

\* the images the handler reads from the request, by content type
request_images(r) ==
    IF r.ctype = "application/json" THEN r.images ELSE multipart_images(r.parts)

\* handler, up to the page loop
AnalyzeReceive(r) ==
    /\ pc = "idle"
    /\ req' = r
    /\ keys_at_start' = DOMAIN storage
    /\ i' = 0
    /\ pages' = <<>>
    /\ IF r.method # "POST"
       THEN resp' = Rejected(405, "Method not allowed") /\ pc' = "responded"
       ELSE IF r.ctype = "multipart/form-data"
       THEN resp' = Rejected(400, "No boundary found in content-type") /\ pc' = "responded"
       ELSE IF r.ctype = "multipart/form-data; boundary=b" /\ no_images(multipart_images(r.parts))
       THEN resp' = Rejected(400, "No images found in request") /\ pc' = "responded"
       ELSE IF r.ctype = "application/json" /\ no_images(r.images)
       THEN resp' = Rejected(400, "No images provided") /\ pc' = "responded"
       ELSE IF r.ctype \notin {"application/json", "multipart/form-data; boundary=b"}
       THEN resp' = Rejected(400, "Unsupported content type") /\ pc' = "responded"
       ELSE resp' = NoResp /\ pc' = "analyzing"
    /\ UNCHANGED <<j, audio_urls, page_audios, book_id, calls, storage, runs, finished,
                   extractVars, voiceVars>>

\* one turn of the page loop: the image is normalized and analyze_page is awaited
AnalyzeImage(answer) ==
    /\ pc = "analyzing"
    /\ i < Len(request_images(req))
    /\ LET image_data == request_images(req)[i + 1] IN
       IF ~startswith_data(image_data)
       THEN \* encode_image_to_base64 of a str: b64encode raises TypeError
            /\ resp' = Failed(Error("TypeError", "a bytes-like object is required", 0))
            /\ pc' = "responded"
            /\ UNCHANGED <<i, pages, calls>>
       ELSE LET b64_data == image_data.payload
                analysis == analyze_page(answer, i)
            IN  /\ calls' = Append(calls, Call("vision", "image/jpeg", b64_data, answer.status))
                /\ IF analysis.raised
                   THEN /\ resp' = Failed(analysis.error)
                        /\ pc' = "responded"
                        /\ UNCHANGED <<i, pages>>
                   ELSE /\ pages' = Append(pages, analysis.value)
                        /\ i' = i + 1
                        /\ UNCHANGED <<resp, pc>>
    /\ UNCHANGED <<req, j, audio_urls, page_audios, book_id, bucketVars, extractVars, voiceVars>>

\* the loop is over: {"success": True, "pages": pages, "page_count": len(pages)}
AnalyzeRespond ==
    /\ pc = "analyzing"
    /\ i = Len(request_images(req))
    /\ resp' = [NoResp EXCEPT !.statusCode = 200, !.keys = {"success", "pages", "page_count"},
                              !.success = TRUE, !.pages = pages, !.page_count = Len(pages)]
    /\ pc' = "responded"
    /\ UNCHANGED <<req, i, j, pages, audio_urls, page_audios, book_id, calls, bucketVars,
                   extractVars, voiceVars>>

-----------------------------------------------------------------------------
(* The synthesize handler *)

NoBookId == <<"<missing>">>      \* the request body has no book_id
BookIds == {<<"b", "1">>, <<"b", "2">>}
UUIDs == {<<"uuid-1">>, <<"uuid-2">>}     \* what uuid.uuid4() may return

DialogueLine(c, t, e) == [character |-> c, text |-> t, emotion |-> e]
SayMom == DialogueLine(<<"M","o","m">>, "Hi there", "happy")
SayBoy == DialogueLine(<<"B","o","y">>, "Hello", "")
SayNothing == DialogueLine(<<"F","o","x">>, "", "sad")
SayAnon == DialogueLine(None, "Psst", "")

DialogueLists ==
    {<<>>, <<SayNothing, SayBoy>>, <<SayMom, SayNothing, SayBoy>>, <<SayAnon>>}

SynthPages == {[narrator |-> n, dialogues |-> ds] : n \in {"", "Hello"}, ds \in DialogueLists}

SynthRequest(method, has, pgs, bid) ==
    [endpoint |-> "synthesize", method |-> method, ctype |-> "application/json", has |-> has,
     images |-> <<>>, parts |-> <<>>, pages |-> pgs, book_id |-> bid]

SynthRequests ==
    {SynthRequest("GET", FALSE, <<>>, NoBookId)}
    \cup {SynthRequest("POST", FALSE, <<>>, b) : b \in BookIds \cup {NoBookId}}
    \cup {SynthRequest("POST", TRUE, ps, b) :
            ps \in SeqsUpTo(SynthPages, MaxPages), b \in BookIds \cup {NoBookId}}

RerunPages ==
    { <<[narrator |-> "Hello", dialogues |-> <<SayMom>>]>>,
      <<[narrator |-> "", dialogues |-> <<SayNothing, SayBoy>>]>>,
      <<[narrator |-> "Hello", dialogues |-> <<SayMom>>],
        [narrator |-> "Hello", dialogues |-> <<SayNothing, SayBoy>>]>> }

RerunRequests ==
    {SynthRequest("POST", TRUE, ps, b) : ps \in RerunPages, b \in BookIds \cup {NoBookId}}

\* str(n) of a natural number
RECURSIVE Dec(_)
Dec(n) == IF n < 10 THEN <<DigitOf(n)>> ELSE Dec(n \div 10) \o <<DigitOf(n % 10)>>

NarratorSegment == <<"n","a","r","r","a","t","o","r">>
\* f'dialogue_{dialogue_num}'
DialogueSegment(dialogue_num) == <<"d","i","a","l","o","g","u","e","_">> \o Dec(dialogue_num)

\* a key that leaves the page number out
filename_without_page(bid, pn, segment_type) ==
    bid \o <<"/","a","u","d","i","o","/","p","a","g","e","_">>
        \o segment_type \o <<".","m","p","3">>

\* f"{book_id}/audio/page_{page_num}_{segment_type}.mp3"
filename(bid, pn, segment_type) ==
    bid \o <<"/","a","u","d","i","o","/","p","a","g","e","_">> \o Dec(pn)
        \o <<"_">> \o segment_type \o <<".","m","p","3">>

\* f"https://{bucket}.cos.{region}.myqcloud.com/{filename}"
public_url(key) == <<"https://bucket.cos.ap-guangzhou.myqcloud.com/">> \o key

\* synthesize_text: the audio of a text in a voice
synthesize_text(text, v) == <<text, v>>

EmptyBucket == [key \in {} |-> <<>>]
SegmentOutcomes == {"ok", "tts_fails", "cos_unconfigured", "put_fails"}

\* synthesize_text followed by upload_to_cos for one segment: the calls made,
\* the bucket afterwards, the URL returned or the exception raised
segment(bucket, text, v, bid, pn, segment_type, outcome) ==
    LET audio == synthesize_text(text, v)
        key == filename(bid, pn, segment_type)
        tts == Call("tts", text, v, 200)
        put == Call("cos", key, audio, 200)
    IN  CASE outcome = "ok" ->
                [raised |-> FALSE, error |-> NoError, made |-> <<tts, put>>,
                 bucket |-> (key :> audio) @@ bucket, url |-> public_url(key)]
          [] outcome = "tts_fails" ->
                [raised |-> TRUE, error |-> Error("NoAudioReceived", "", 0),
                 made |-> <<[tts EXCEPT !.status = 0]>>, bucket |-> bucket, url |-> <<>>]
          [] outcome = "cos_unconfigured" ->
                [raised |-> TRUE, error |-> Error("ValueError", "COS_BUCKET not configured", 0),
                 made |-> <<tts, [put EXCEPT !.status = 0]>>, bucket |-> bucket, url |-> <<>>]
          [] outcome = "put_fails" ->
                [raised |-> TRUE, error |-> Error("CosServiceError", "", 0),
                 made |-> <<tts, [put EXCEPT !.status = 0]>>, bucket |-> bucket, url |-> <<>>]

\* `if narrator_text:` / `if text:` that takes every text
truthy_always(text) == TRUE

\* `if narrator_text:` / `if text:`
truthy(text) == text # ""

\* `if not pages` that never rejects
no_pages_never(pgs) == FALSE

\* `if not pages`
no_pages(pgs) == pgs = <<>>

NoAudios == [has_narrator |-> FALSE, narrator |-> <<>>, dialogues |-> <<>>]

\* handler, up to the page loop
SynthReceive(r, uuid) ==
    /\ pc = "idle"
    /\ req' = r
    /\ keys_at_start' = DOMAIN storage
    /\ book_id' = IF r.method # "POST" THEN <<>>
                  ELSE IF r.book_id = NoBookId THEN uuid ELSE r.book_id
    /\ i' = 0
    /\ j' = 0
    /\ audio_urls' = <<>>
    /\ page_audios' = NoAudios
    /\ IF r.method # "POST"
       THEN resp' = Rejected(405, "Method not allowed") /\ pc' = "responded"
       ELSE IF no_pages(r.pages)
       THEN resp' = Rejected(400, "No pages provided") /\ pc' = "responded"
       ELSE resp' = NoResp /\ pc' = "narrator"
    /\ UNCHANGED <<pages, calls, storage, runs, finished, extractVars, voiceVars>>

\* a page's narrator: synthesized and uploaded when its text is not empty
SynthNarrator(outcome) ==
    /\ pc = "narrator"
    /\ i < Len(req.pages)
    /\ LET narrator_text == req.pages[i + 1].narrator IN
       IF truthy(narrator_text)
       THEN LET s == segment(storage, narrator_text, VOICE_MAP["narrator"], book_id, i,
                             NarratorSegment, outcome)
            IN  /\ calls' = calls \o s.made
                /\ storage' = s.bucket
                /\ IF s.raised
                   THEN /\ resp' = Failed(s.error)
                        /\ pc' = "responded"
                        /\ UNCHANGED <<j, page_audios>>
                   ELSE /\ page_audios' = [NoAudios EXCEPT !.has_narrator = TRUE,
                                                         !.narrator = s.url]
                        /\ pc' = "dialogues"
                        /\ j' = 0
                        /\ UNCHANGED resp
       ELSE /\ page_audios' = NoAudios
            /\ pc' = "dialogues"
            /\ j' = 0
            /\ UNCHANGED <<calls, storage, resp>>
    /\ UNCHANGED <<req, i, pages, audio_urls, book_id, runs, finished, keys_at_start,
                   extractVars, voiceVars>>

\* one turn of the dialogue loop
SynthDialogue(outcome) ==
    /\ pc = "dialogues"
    /\ j < Len(req.pages[i + 1].dialogues)
    /\ LET dialogue == req.pages[i + 1].dialogues[j + 1]
           chosen == determine_voice(dialogue.character, dialogue.emotion)
       IN  IF ~truthy(dialogue.text)
           THEN /\ j' = j + 1
                /\ UNCHANGED <<calls, storage, resp, pc, page_audios>>
           ELSE IF chosen.raised
           THEN /\ resp' = Failed(Error("TypeError", "argument of type 'NoneType' is not iterable", 0))
                /\ pc' = "responded"
                /\ UNCHANGED <<calls, storage, j, page_audios>>
           ELSE LET s == segment(storage, dialogue.text, chosen.voice, book_id, i,
                                 DialogueSegment(j), outcome)
                IN  /\ calls' = calls \o s.made
                    /\ storage' = s.bucket
                    /\ IF s.raised
                       THEN /\ resp' = Failed(s.error)
                            /\ pc' = "responded"
                            /\ UNCHANGED <<j, page_audios>>
                       ELSE /\ page_audios' =
                                [page_audios EXCEPT !.dialogues =
                                    Append(@, [character |-> dialogue.character,
                                               text |-> dialogue.text,
                                               url |-> s.url,
                                               emotion |-> dialogue.emotion])]
                            /\ j' = j + 1
                            /\ UNCHANGED <<resp, pc>>
    /\ UNCHANGED <<req, i, pages, audio_urls, book_id, runs, finished, keys_at_start,
                   extractVars, voiceVars>>

\* the dialogue loop is over: audio_urls.append(page_audios)
SynthEndPage ==
    /\ pc = "dialogues"
    /\ j = Len(req.pages[i + 1].dialogues)
    /\ audio_urls' = Append(audio_urls, page_audios)
    /\ i' = i + 1
    /\ pc' = "narrator"
    /\ UNCHANGED <<req, j, pages, page_audios, book_id, resp, calls, bucketVars,
                   extractVars, voiceVars>>

\* the page loop is over: {"success": True, "book_id": book_id, "audio_urls": audio_urls}
SynthRespond ==
    /\ pc = "narrator"
    /\ i = Len(req.pages)
    /\ resp' = [NoResp EXCEPT !.statusCode = 200, !.keys = {"success", "book_id", "audio_urls"},
                              !.success = TRUE, !.book_id = book_id,
                              !.audio_urls = audio_urls]
    /\ pc' = "responded"
    /\ UNCHANGED <<req, i, j, pages, audio_urls, page_audios, book_id, calls, bucketVars,
                   extractVars, voiceVars>>

-----------------------------------------------------------------------------
(* Invocations *)

NoRequest == AnalyzeRequest("", "", FALSE, <<>>, <<>>)

IdleInvocation ==
    /\ pc = "idle"
    /\ req = NoRequest
    /\ i = 0
    /\ j = 0
    /\ pages = <<>>
    /\ audio_urls = <<>>
    /\ page_audios = NoAudios
    /\ book_id = <<>>
    /\ resp = NoResp
    /\ calls = <<>>

InitHandler ==
    /\ IdleInvocation
    /\ storage = EmptyBucket
    /\ runs = 0
    /\ finished = [r \in {} |-> <<>>]
    /\ keys_at_start = {}

\* the function is invoked again; the bucket stays as the last invocation left it
NextInvocation ==
    /\ pc = "responded"
    /\ runs + 1 < MaxRuns
    /\ runs' = runs + 1
    /\ finished' = IF resp.statusCode = 200 /\ req.endpoint = "synthesize"
                   THEN (req :> resp.audio_urls) @@ finished
                   ELSE finished
    /\ pc' = "idle"
    /\ req' = NoRequest
    /\ i' = 0
    /\ j' = 0
    /\ pages' = <<>>
    /\ audio_urls' = <<>>
    /\ page_audios' = NoAudios
    /\ book_id' = <<>>
    /\ resp' = NoResp
    /\ calls' = <<>>
    /\ UNCHANGED <<storage, keys_at_start, extractVars, voiceVars>>

-----------------------------------------------------------------------------
(* The two pure functions, each applied to an input drawn from its domain *)

InitExtract ==
    /\ reply \in Replies
    /\ page_num \in 0..(MaxPages - 1)
    /\ extracted = NotExtracted

InitVoice ==
    /\ character \in Characters
    /\ emotion \in Emotions
    /\ voice = NotVoiced

IdleExtract ==
    /\ reply = [embedded |-> FALSE, pre |-> <<>>, obj |-> NoPage, post |-> <<>>, content |-> <<>>]
    /\ page_num = 0
    /\ extracted = NotExtracted

IdleVoice ==
    /\ character = <<>>
    /\ emotion = ""
    /\ voice = NotVoiced

Extract ==
    /\ extracted = NotExtracted
    /\ extracted' = parse_content(reply.content)
    /\ UNCHANGED <<reply, page_num, voiceVars, handlerVars>>

Voice ==
    /\ voice = NotVoiced
    /\ voice' = determine_voice(character, emotion)
    /\ UNCHANGED <<character, emotion, extractVars, handlerVars>>

Init == InitHandler /\ IdleExtract /\ IdleVoice

\* one invocation of either function
Next ==
    \/ \E r \in AnalyzeRequests : AnalyzeReceive(r)
    \/ \E answer \in Answers : AnalyzeImage(answer)
    \/ AnalyzeRespond
    \/ \E r \in SynthRequests, uuid \in UUIDs : SynthReceive(r, uuid)
    \/ \E outcome \in SegmentOutcomes : SynthNarrator(outcome)
    \/ \E outcome \in SegmentOutcomes : SynthDialogue(outcome)
    \/ SynthEndPage
    \/ SynthRespond

\* invocations of the synthesize function, one after the other, on one bucket
NextRerun ==
    \/ \E r \in RerunRequests, uuid \in UUIDs : SynthReceive(r, uuid)
    \/ \E outcome \in SegmentOutcomes : SynthNarrator(outcome)
    \/ \E outcome \in SegmentOutcomes : SynthDialogue(outcome)
    \/ SynthEndPage
    \/ SynthRespond
    \/ NextInvocation

Spec == Init /\ [][Next]_vars
SpecRerun == Init /\ [][NextRerun]_vars
\* the extraction step applied to one reply
ExtractInit == InitHandler /\ InitExtract /\ IdleVoice
SpecExtract == ExtractInit /\ [][Extract]_vars

\* determine_voice applied to one character label
VoiceInit == InitHandler /\ InitVoice /\ IdleExtract
SpecVoice == VoiceInit /\ [][Voice]_vars

-----------------------------------------------------------------------------
(* Claims about the extraction step (SpecExtract) *)

HasKind(t, k) == \E a \in 1..Len(t) : t[a].k = k

NoBracePair(c) ==
    ~ \E a, b \in 1..Len(c) : a < b /\ c[a].k = "{" /\ c[b].k = "}"

BraceSpanFailsToParse(c) ==
    /\ ~NoBracePair(c)
    /\ ~json_loads(Slice(c, find(c, "{"), rfind(c, "}") + 1)).ok

Malformed(c) == NoBracePair(c) \/ BraceSpanFailsToParse(c)

\* the text shows the number m: its decimal digits, one after the other
ShowsNumber(t, m) ==
    \E a \in 1..Len(t) :
        \A d \in 1..Len(Dec(m)) :
            a + d - 1 <= Len(t) /\ t[a + d - 1].k = "num" /\ t[a + d - 1].v = Dec(m)[d]

\* the text names the page: by its index or by its one-based number
NamesPage(t, pn) == ShowsNumber(t, pn) \/ ShowsNumber(t, pn + 1)

\* The fallback of a malformed reply, the narrator apart: nothing is raised,
\* the dialogues are empty, the scene description is the placeholder and the
\* narrator is the first NarratorCap characters of the reply.
ExtractFallbackShape ==
    (extracted # NotExtracted /\ Malformed(reply.content)) =>
        /\ ~extracted.raised
        /\ extracted.path = "fallback"
        /\ extracted.value.v.dialogues = JArr(<<>>)
        /\ extracted.value.v.scene_description = JStr("Analysis failed to parse")
        /\ extracted.value.v.narrator.t = "text"
        /\ extracted.value.v.narrator.v = Take(reply.content, NarratorCap)
        /\ TextLen(extracted.value.v.narrator.v) <= NarratorCap

\* C3: for every reply with no "{"/"}" pair, or whose span from the first "{"
\* to the last "}" fails to parse, the extraction returns, without raising, a
\* fallback record with empty dialogues, a placeholder scene description and a
\* narrator that contains the page number.
C3_FallbackNamesPage ==
    (extracted # NotExtracted /\ Malformed(reply.content)) =>
        /\ ~extracted.raised
        /\ extracted.value.v.dialogues = JArr(<<>>)
        /\ extracted.value.v.scene_description = JStr("Analysis failed to parse")
        /\ NamesPage(extracted.value.v.narrator.v, page_num)

\* C4 as stated: whatever prose surrounds a well-formed page object, the
\* extraction returns exactly that object.
C4_AnyProse ==
    (extracted # NotExtracted /\ reply.embedded) =>
        (extracted.path = "parsed" /\ extracted.value = reply.obj)

\* C4 amended: when the prose before the object has no "{" and the prose after
\* it has no "}", the extraction returns exactly that object, its dialogue
\* entries in their original order.
C4_BraceFreeProse ==
    (/\ extracted # NotExtracted
     /\ reply.embedded
     /\ ~HasKind(reply.pre, "{")
     /\ ~HasKind(reply.post, "}")) =>
        /\ extracted.path = "parsed"
        /\ extracted.value = reply.obj
        /\ extracted.value.v.dialogues.v = reply.obj.v.dialogues.v

C4_Witness ==
    /\ extracted # NotExtracted
    /\ reply.embedded
    /\ reply.pre # <<>> /\ ~HasKind(reply.pre, "{")
    /\ reply.post # <<>> /\ ~HasKind(reply.post, "}")
    /\ reply.obj = Page("Hello", <<LineMom, LineBoy>>, "a kitchen")
    /\ extracted.value = reply.obj

-----------------------------------------------------------------------------
(* Claims about determine_voice (SpecVoice) *)

\* the rule table of the voice selection, on a lower-cased label
RuleVoice(chr) ==
    LET l == lower(chr)
        any(S) == \E m \in S : contains(l, m)
    IN  IF any({<<"c","h","i","l","d">>, <<"k","i","d">>, <<"b","o","y">>, <<"g","i","r","l">>})
        THEN "zh-CN-XiaoyiNeural"
        ELSE IF any({<<"f","a","t","h","e","r">>, <<"d","a","d">>, <<BA, BA>>})
        THEN "zh-CN-YunxiNeural"
        ELSE IF any({<<"m","o","t","h","e","r">>, <<"m","o","m">>, <<MA, MA>>})
        THEN "zh-CN-XiaochenNeural"
        ELSE "zh-CN-XiaoxiaoNeural"

\* On every str the first matching rule decides, whatever the emotion.
VoiceRulesOnStrings ==
    (voice # NotVoiced /\ character # None) =>
        (~voice.raised /\ voice.voice = RuleVoice(character))

\* C9: determine_voice is total and deterministic: for every character value
\* and every emotion it returns, without error and independently of the
\* emotion, the voice of the first matching rule (child, then male, then
\* female, else the default narrator voice).
C9_TotalRuleVoice ==
    voice # NotVoiced =>
        /\ ~voice.raised
        /\ voice.voice = RuleVoice(IF character = None THEN <<>> ELSE character)

-----------------------------------------------------------------------------
(* Claims about the analyze handler (Spec) *)

AnalyzeDone == pc = "responded" /\ req.endpoint = "analyze" /\ req.method = "POST"

AllDataUrls(imgs) == \A k \in 1..Len(imgs) : startswith_data(imgs[k])

\* C1: for every non-empty batch of N images the page loop returns exactly N
\* page records, record k for image k, whatever mix of provider successes and
\* failures occurs on the pages.  (Stated for batches of data-URL images, so
\* that only the provider's answers decide it.)
C1_OneRecordPerImage ==
    (AnalyzeDone /\ request_images(req) # <<>> /\ AllDataUrls(request_images(req))) =>
        /\ resp.statusCode = 200
        /\ "pages" \in resp.keys
        /\ Len(resp.pages) = Len(request_images(req))
        /\ resp.page_count = Len(request_images(req))
        /\ \A k \in 1..Len(resp.pages) : calls[k].p[2] = request_images(req)[k].payload

\* the record of a page whose request the service refused with `status`
IsRefusalFallback(rec, status, pn) ==
    /\ rec.t = "obj"
    /\ DOMAIN rec.v = {"narrator", "dialogues", "scene_description"}
    /\ rec.v.dialogues = JArr(<<>>)
    /\ rec.v.scene_description.t = "text"
    /\ ShowsNumber(rec.v.scene_description.v, status)
    /\ rec.v.narrator.t = "text"
    /\ NamesPage(rec.v.narrator.v, pn)

\* C2: when the vision service answers a page's request with a non-success
\* status, analyze_page does not raise: the page gets a fallback record whose
\* scene description holds the status code, whose narrator holds the page
\* number and whose dialogues are empty, and the request as a whole succeeds.
C2_RefusalGivesFallback ==
    \A k \in 1..Len(calls) :
        (AnalyzeDone /\ calls[k].api = "vision" /\ calls[k].status \notin {0, 200}) =>
            /\ resp.statusCode = 200
            /\ resp.success
            /\ Len(resp.pages) >= k
            /\ IsRefusalFallback(resp.pages[k], calls[k].status, k - 1)

-----------------------------------------------------------------------------
(* Claims about the synthesize handler (Spec, SpecRerun) *)

SynthDone == pc = "responded" /\ req.endpoint = "synthesize" /\ req.method = "POST"

\* the lines of a page that have a text, in their order
SpokenLines(ds) == SelectSeq(ds, LAMBDA d : d.text # "")

\* a manifest's dialogue segments without their URLs
SegmentLines(segs) ==
    [k \in 1..Len(segs) |->
        DialogueLine(segs[k].character, segs[k].text, segs[k].emotion)]

\* C5: a successful synthesis of pages p_0..p_{n-1} returns exactly n
\* manifests, manifest i built from page i: it has a narrator segment iff the
\* page's narrator text is not empty, and its dialogue segments are exactly
\* the page's lines with a non-empty text, in source order, with no gap, each
\* carrying the line's character, text and emotion.
C5_ManifestPerPage ==
    (SynthDone /\ resp.statusCode = 200) =>
        /\ "audio_urls" \in resp.keys
        /\ Len(resp.audio_urls) = Len(req.pages)
        /\ \A p \in 1..Len(req.pages) :
            LET m == resp.audio_urls[p]
                page == req.pages[p]
            IN  /\ m.has_narrator <=> (page.narrator # "")
                /\ m.has_narrator =>
                     m.narrator = public_url(filename(resp.book_id, p - 1, NarratorSegment))
                /\ SegmentLines(m.dialogues) = SpokenLines(page.dialogues)
                /\ \A k \in 1..Len(m.dialogues) :
                     \E key \in DOMAIN storage :
                        /\ m.dialogues[k].url = public_url(key)
                        /\ storage[key][1] = m.dialogues[k].text

C5_Witness ==
    /\ SynthDone
    /\ resp.statusCode = 200
    /\ Len(req.pages) = 2
    /\ req.pages[1].narrator = ""
    /\ req.pages[1].dialogues = <<SayMom, SayNothing, SayBoy>>
    /\ req.pages[2].narrator = "Hello"
    /\ Len(resp.audio_urls[1].dialogues) = 2

\* a segment: (book, page, "narrator") or (book, page, "dialogue", index)
KeyBooks ==
    BookIds \cup UUIDs
    \cup { <<"b">>, <<"b", "1", "/">>,
           filename(<<"b">>, 0, NarratorSegment),
           <<"b">> \o <<"/","a","u","d","i","o","/","p","a","g","e","_">>,
           <<"b">> \o <<"/","a","u","d","i","o","/","p","a","g","e","_", "0">> }

KeySegments == {NarratorSegment} \cup {DialogueSegment(d) : d \in 0..11}
KeyTuples == KeyBooks \X (0..11) \X KeySegments

KeysCollisionFree ==
    \A a, b \in KeyTuples :
        filename(a[1], a[2], a[3]) = filename(b[1], b[2], b[3]) => a = b

\* every object in the bucket lies under the key of a segment of a page
KeysOfSegments ==
    \A key \in DOMAIN storage :
        \E b \in BookIds \cup UUIDs, p \in 0..(MaxPages - 1), sg \in KeySegments :
            key = filename(b, p, sg)

\* C6: the key a segment is uploaded under is a function of (book id, page
\* index, segment kind, dialogue index) alone and no two such tuples share a
\* key; so a synthesis repeated with the same (book id, pages) returns the same
\* URLs and leaves the set of stored keys as it was.
C6_RerunOverwrites ==
    /\ KeysCollisionFree
    /\ KeysOfSegments
    /\ (/\ SynthDone
        /\ resp.statusCode = 200
        /\ req.book_id # NoBookId
        /\ req \in DOMAIN finished) =>
            /\ resp.audio_urls = finished[req]
            /\ DOMAIN storage = keys_at_start

C6_Witness ==
    /\ SynthDone
    /\ resp.statusCode = 200
    /\ req.book_id # NoBookId
    /\ req \in DOMAIN finished
    /\ Len(req.pages) = 2
    /\ Cardinality(DOMAIN storage) >= 4

SegmentFailed == \E k \in 1..Len(calls) : calls[k].status # 200

\* C7: if synthesis or upload fails for one segment, the call ends in an
\* error that holds no manifest, nothing is synthesized or uploaded after the
\* failure, and every object uploaded before it stays in the bucket.
C7_FailureAborts ==
    (req.endpoint = "synthesize" /\ SegmentFailed) =>
        /\ pc = "responded"
        /\ resp.statusCode = 500
        /\ ~resp.success
        /\ "error" \in resp.keys
        /\ "audio_urls" \notin resp.keys
        /\ resp.audio_urls = <<>>
        /\ \A k \in 1..Len(calls) : calls[k].status # 200 => k = Len(calls)
        /\ \A k \in 1..Len(calls) :
            (calls[k].api = "cos" /\ calls[k].status = 200) =>
                /\ calls[k].p[1] \in DOMAIN storage
                /\ storage[calls[k].p[1]] = calls[k].p[2]

C7_Witness ==
    /\ SynthDone
    /\ SegmentFailed
    /\ Len(audio_urls) = 1
    /\ Cardinality(DOMAIN storage) >= 2
    /\ resp.statusCode = 500

\* C8 as stated: an empty pages list gives a successful result with an empty
\* manifest sequence, and no synthesis or storage call.
C8_EmptyPagesSucceed ==
    (SynthDone /\ req.has /\ req.pages = <<>>) =>
        /\ resp.statusCode = 200
        /\ resp.success
        /\ "audio_urls" \in resp.keys
        /\ resp.audio_urls = <<>>
        /\ calls = <<>>

\* C8 amended: an empty pages list is rejected with status 400 ("No pages
\* provided"), the response holds no manifest, and no synthesis or storage
\* call is made.
C8_EmptyPagesRejected ==
    (req.endpoint = "synthesize" /\ req.method = "POST" /\ req.has /\ req.pages = <<>>) =>
        /\ pc = "responded"
        /\ resp = Rejected(400, "No pages provided")
        /\ "audio_urls" \notin resp.keys
        /\ calls = <<>>
        /\ storage = EmptyBucket

C8_Witness ==
    /\ SynthDone
    /\ req.has
    /\ req.pages = <<>>
    /\ req.book_id \in BookIds
    /\ resp.statusCode = 400

-----------------------------------------------------------------------------
(* Invalid input (Spec) *)

IsRejection == resp.statusCode \in {400, 405} /\ resp.keys = {"error"}

MissingImages == req.endpoint = "analyze" /\ req.method = "POST" /\ ~req.has
MissingPages == req.endpoint = "synthesize" /\ req.method = "POST" /\ ~req.has
MissingBookId == req.endpoint = "synthesize" /\ req.method = "POST" /\ req.book_id = NoBookId

\* C10 as stated: a request with missing images (analysis), or with missing
\* pages or a missing book id (synthesis), is rejected at once, before any
\* vision, synthesis or storage call.
C10_MissingInputRejected ==
    (MissingImages \/ MissingPages \/ MissingBookId) =>
        /\ pc = "responded" => IsRejection
        /\ calls = <<>>
        /\ storage = EmptyBucket

\* C10 amended: a request with missing images (analysis) or missing pages
\* (synthesis) is rejected at once with status 400, before any vision,
\* synthesis or storage call; a synthesis request with pages and no book id is
\* not rejected: it runs under a freshly generated id.
C10_MissingListRejected ==
    /\ (MissingImages \/ MissingPages) =>
        /\ pc = "responded"
        /\ resp.statusCode = 400
        /\ resp.keys = {"error"}
        /\ calls = <<>>
        /\ storage = EmptyBucket
    /\ (MissingBookId /\ req.pages # <<>>) =>
        /\ book_id \in UUIDs
        /\ pc = "responded" => ~IsRejection
        /\ (pc = "responded" /\ resp.statusCode = 200) => resp.book_id = book_id

C10_Witness ==
    /\ MissingImages
    /\ req.ctype = "application/json"
    /\ pc = "responded"
    /\ resp = Rejected(400, "No images provided")

-----------------------------------------------------------------------------
(* C11: what the vision service is sent for an image *)

\* the media type an image string declares in its data-URL prefix; JPEG for a
\* string without a prefix
DeclaredMediaType(img) ==
    CASE img.prefix = "data:image/png;base64" -> "image/png"
      [] img.prefix = JpegPrefix -> "image/jpeg"
      [] OTHER -> "image/jpeg"

\* the k-th request to the vision service carries the k-th image's payload,
\* prefix stripped, under the media type the image declares
SentAsDeclared(k) ==
    LET image_data == request_images(req)[k] IN
    /\ calls[k].api = "vision"
    /\ calls[k].p = <<DeclaredMediaType(image_data), image_data.payload>>

\* the request was ended by encode_image_to_base64 raising on a str
FailedOnBareImage ==
    pc = "responded" /\ resp.statusCode = 500 /\ resp.error.type = "TypeError"

\* C11: during an analyze request every image handed to the vision service,
\* with or without a data-URL prefix, goes out as its payload with the prefix
\* stripped under the media type its prefix declares (JPEG without a prefix),
\* and no image without a prefix fails the request.
C11_ImageSentAsDeclared ==
    (req.endpoint = "analyze" /\ pc \in {"analyzing", "responded"}) =>
        /\ \A k \in 1..Len(calls) : SentAsDeclared(k)
        /\ ~FailedOnBareImage

====
